---- MODULE Spec2Model ----
(***************************************************************************)
(* Whale trackers of imjonny/polymarket-tracker.                           *)
(*                                                                         *)
(*   variant = "js" : the Kalshi order-book tracker in JavaScript          *)
(*                    (src/unnamed/part_000, lines 1-300)                  *)
(*   variant = "py" : the Kalshi order-book tracker in Python              *)
(*                    (src/server.js holds the Python class                *)
(*                    KalshiWhaleTracker)                                  *)
(*                                                                         *)
(*   variant = "trades" : the Polymarket trade-feed tracker in JavaScript  *)
(*                    (src/unnamed/part_000, lines 302-569), run by        *)
(*                    TradeSpec and HttpSpec                               *)
(*                                                                         *)
(* One behaviour runs one of the programs; Init picks which.  The          *)
(* history variables (committed, notifyCalls, ...) record what a program   *)
(* did and are never read by the actions that model its code.              *)
(*                                                                         *)
(* Sizes.  The programs' literals 5000/2500 (JS ledger), 10000/5000 and    *)
(* "every 100 checks" (Python ledger) and 100 (ring) are scaled down to    *)
(* JsLedgerCap/JsLedgerKeep, PyLedgerCap/PyLedgerKeep, PyCleanupEvery and  *)
(* RingCap, keeping  RingCap <= Keep < Cap.  The code compares sizes with  *)
(* these literals only through > and slice(-n), so the scaled model takes  *)
(* the same branches at the scaled sizes.                                  *)
(*                                                                         *)
(* Time.  Wall-clock time is not modelled.  A JS timer tick may start a    *)
(* cycle at any moment: one cycle awaits a 200 ms delay and an HTTP fetch  *)
(* (timeout 10 s) per market, for up to 100 markets, and a webhook POST    *)
(* with no timeout, against a 30 s setInterval period.                     *)
(***************************************************************************)
EXTENDS Integers, Sequences, FiniteSets, TLC

(* ------------------------------ bounds --------------------------------- *)
\* monitorKalshi() calls made in one run of the JS program
MaxCycles == 2
\* checks made in one run of the Python program
MaxChecks == 3
\* alerts whose send fails in one run
MaxSendFailures == 1
\* markets in a non-empty listing
MaxMarkets == 2
\* seenAlerts.size > 5000 (part_000:234), scaled
JsLedgerCap == 3
\* alertsArray.slice(-2500) (part_000:238), scaled
JsLedgerKeep == 2
\* recentWhales.length > 100 (part_000:157, 190), scaled
RingCap == 2
\* len(self.seen_orders) > 10000 (server.js:211), scaled
PyLedgerCap == 3
\* list(self.seen_orders)[-5000:] (server.js:213), scaled
PyLedgerKeep == 2
\* check_count % 100 == 0 (server.js:274), scaled
PyCleanupEvery == 3

(* --------------------------- configuration ----------------------------- *)
\* CONFIG.MIN_TRADE_SIZE / order_threshold, in dollars: the value of the
\* environment the program is started in
MinTradeSizes == {200}
\* CONFIG.DISCORD_WEBHOOK: '' disables the alert
Webhooks == {"", "https://discord/hook"}

(* ------------------------------ inputs --------------------------------- *)
AllTickers == <<"A", "B", "C", "D">>
Tickers == SubSeq(AllTickers, 1, MaxMarkets)

\* what GET /markets can give getActiveMarkets: nothing (error, or an empty
\* list) or the open markets
MarketListings == {<<>>, Tickers}

\* entries of an order-book side.  Big1 and Big2 are worth $210 and $200
\* (the threshold itself), Small $199.60, NoCount has no count field, and
\* NullEntry is a JSON null in the array.
Big1 == [kind |-> "obj", price |-> 42, count |-> 500]
Big2 == [kind |-> "obj", price |-> 40, count |-> 500]
Small == [kind |-> "obj", price |-> 40, count |-> 499]
NoCount == [kind |-> "obj", price |-> 42]
NullEntry == [kind |-> "null"]

\* what GET /markets/{ticker}/orderbook can give: a failure, a body with
\* both sides, or a body with one side missing
FetchFailed == [kind |-> "failed"]
Orderbooks ==
    { [kind |-> "obj", yes |-> <<Big1, Small>>, no |-> <<>>],
      [kind |-> "obj", yes |-> <<Big1, Big2, Big1>>, no |-> <<NoCount, Big1>>],
      [kind |-> "obj", yes |-> <<Big1, NullEntry, Big2>>, no |-> <<Big1>>],
      [kind |-> "obj", yes |-> <<Big1, Big2>>] }
OrderbookResponses == {FetchFailed} \cup Orderbooks

(* ------------------------------- state --------------------------------- *)
VARIABLES
    variant,        \* which program runs
    CONFIG,         \* [MIN_TRADE_SIZE, DISCORD_WEBHOOK]
    proc,           \* "starting" | "listening" | "exited"
    seenAlerts,     \* JS Set, as the sequence of its keys in insertion order
    recentWhales,   \* JS array, index 1 is recentWhales[0]
    cycles,         \* the monitorKalshi() calls made so far, in call order
    seen_orders,    \* Python: self.seen_orders, a set
    py,             \* Python: run()'s position, check_count, markets, index
    recentTrades,   \* trade feed: JS array, index 1 is recentTrades[0]
    seenTradeIds,   \* trade feed: JS Set, its keys in insertion order
    trackedMarkets, \* trade feed: JS Set of condition ids
    \* history
    step,           \* the last event handled: [op, c, arg]
    py_inserted,    \* the members of seen_orders in the order of insertion
    committed,      \* every whale / large order committed, in commit order
    notifyCalls,    \* hash of every sendDiscordAlert / send_discord_alert call
    notifyFailed,   \* hashes whose send failed or threw
    evicted,        \* hashes dropped by a cleanup, one entry per eviction
    suppressed,     \* hashes that met the threshold and were found seen
    cycleEnds,      \* one record per ended cycle, in order of ending
    lastCleanup     \* the last cleanup that dropped something, or NoCleanup

vars == <<variant, CONFIG, proc, seenAlerts, recentWhales, cycles,
          seen_orders, py, recentTrades, seenTradeIds, trackedMarkets,
          step, py_inserted,
          committed, notifyCalls, notifyFailed, evicted, suppressed,
          cycleEnds, lastCleanup>>

\* the history variables but step, which every action sets
history == <<py_inserted, committed, notifyCalls, notifyFailed, evicted,
             suppressed, cycleEnds, lastCleanup>>

jsState == <<seenAlerts, recentWhales, cycles, proc>>

pyState == <<seen_orders, py, py_inserted>>

tradeState == <<recentTrades, seenTradeIds, trackedMarkets>>

Event(op, c, arg) == [op |-> op, c |-> c, arg |-> arg]

Range(s) == {s[i] : i \in 1..Len(s)}

Last(s, n) == SubSeq(s, Len(s) - n + 1, Len(s))

Count(s, x) == Cardinality({i \in 1..Len(s) : s[i] = x})

Reverse(s) == [i \in 1..Len(s) |-> s[Len(s) + 1 - i]]

FirstN(s, n) == SubSeq(s, 1, IF Len(s) < n THEN Len(s) ELSE n)

IsPrefix(s, t) == Len(s) <= Len(t) /\ SubSeq(t, 1, Len(s)) = s

(* ------------------------- pure functions: JS -------------------------- *)
\* createOrderHash with no separator between price and count
createOrderHash_NoSeparator(ticker, side, price, count) ==
    ticker \o "_" \o side \o "_" \o ToString(price) \o ToString(count)

\* createOrderHash: `${ticker}_${side}_${price}_${count}`
createOrderHash(ticker, side, price, count) ==
    ticker \o "_" \o side \o "_" \o ToString(price) \o "_" \o ToString(count)

\* order.count || 0, order.price || 0: a missing field or a 0 gives 0
OrZero(order, field) ==
    IF field \in DOMAIN order /\ order[field] # 0 THEN order[field] ELSE 0

\* orderValue = (count * price) / 100, kept in cents
orderValueCents(count, price) == count * price

\* meetsThreshold with > in the place of >=
meetsThreshold_Strict(count, price, minTradeSize) ==
    orderValueCents(count, price) > minTradeSize * 100

\* orderValue >= CONFIG.MIN_TRADE_SIZE, both sides times 100
meetsThreshold(count, price, minTradeSize) ==
    orderValueCents(count, price) >= minTradeSize * 100

\* ringPush with the length test off by one
ringPush_PopLate(ring, whale) ==
    LET grown == <<whale>> \o ring
    IN  IF Len(grown) > RingCap + 1 THEN SubSeq(grown, 1, Len(grown) - 1)
        ELSE grown

\* ringPush with shift() in the place of pop()
ringPush_Shift(ring, whale) ==
    LET grown == <<whale>> \o ring
    IN  IF Len(grown) > RingCap THEN Tail(grown) ELSE grown

\* recentWhales.unshift(whale); if (recentWhales.length > 100) recentWhales.pop()
ringPush(ring, whale) ==
    LET grown == <<whale>> \o ring
    IN  IF Len(grown) > RingCap THEN SubSeq(grown, 1, Len(grown) - 1) ELSE grown

\* the cleanup block of monitorKalshi
\* a cleanup that keeps the oldest entries: slice(0, 2500)
jsCleanup_KeepOldest(seen) ==
    IF Len(seen) > JsLedgerCap THEN FirstN(seen, JsLedgerKeep) ELSE seen

jsCleanup(seen) ==
    IF Len(seen) > JsLedgerCap THEN Last(seen, JsLedgerKeep) ELSE seen

\* getOrderbook with no catch: the rejection reaches the caller
getOrderbook_Rethrow(response) ==
    IF response.kind = "failed" THEN [kind |-> "throw"] ELSE response

\* getOrderbook: the catch turns a failed GET into null
getOrderbook(response) ==
    IF response.kind = "failed" THEN [kind |-> "null"] ELSE response

\* !orderbook || !orderbook.yes || !orderbook.no  (an empty array is truthy)
orderbookUnusable(ob) ==
    ob.kind = "null" \/ "yes" \notin DOMAIN ob \/ "no" \notin DOMAIN ob

\* sendDiscordAlertPosts with the webhook guard removed
sendDiscordAlertPosts_NoGuard(cfg) == TRUE

\* whether sendDiscordAlert gets to its POST:
\* `if (!CONFIG.DISCORD_WEBHOOK) return;` comes before any I/O
sendDiscordAlertPosts(cfg) == cfg.DISCORD_WEBHOOK # ""

\* sendDiscordAlert with no catch around the POST
sendDiscordAlertEnds_Rethrow(delivered) ==
    IF delivered THEN "resume" ELSE "throw"

\* how sendDiscordAlert ends once its POST settles: the try/catch logs a
\* rejection, so the caller is resumed either way
sendDiscordAlertEnds(delivered) == "resume"

\* monitorKalshiEnd with the empty listing falling through to the cleanup
\* block instead of returning
monitorKalshiEnd_FallThrough(how, seen) ==
    IF how = "error" THEN seen ELSE jsCleanup(seen)

\* the ledger monitorKalshi leaves when it ends: the return on an empty
\* listing and the catch both skip the cleanup block
monitorKalshiEnd(how, seen) ==
    IF how = "completed" THEN jsCleanup(seen) ELSE seen

(***************************************************************************)
(* The two loops of checkForLargeOrders, run from the position st until    *)
(* the function suspends at `await sendDiscordAlert` with a POST in        *)
(* flight ("await"), throws ("throw") or returns ("return").  With no      *)
(* webhook sendDiscordAlert returns before any I/O, the await resumes in   *)
(* a microtask, and the loop goes on in the same step.                     *)
(***************************************************************************)
\* a ledger that forgets what it is given
seenAlertsAdd_Forget(seen, hash) == seen

\* seenAlerts.add(hash), reached only when !seenAlerts.has(hash)
seenAlertsAdd(seen, hash) == Append(seen, hash)

RECURSIVE checkLoop(_, _, _)
checkLoop(ticker, cfg, st) ==
    IF st.rest = <<>>
    THEN IF st.side = "YES"
         THEN checkLoop(ticker, cfg,
                  [st EXCEPT !.side = "NO", !.rest = st.noRest, !.noRest = <<>>])
         ELSE [st EXCEPT !.status = "return"]
    ELSE LET order == Head(st.rest)
             next == [st EXCEPT !.rest = Tail(st.rest)]
         IN  IF order.kind = "null"
             THEN [st EXCEPT !.status = "throw"]
             ELSE LET count == OrZero(order, "count")
                      price == OrZero(order, "price")
                      hash == createOrderHash(ticker, st.side, price, count)
                      whale == [ticker |-> ticker, outcome |-> st.side,
                                amount |-> orderValueCents(count, price),
                                price |-> price, count |-> count,
                                timestamp |-> Len(st.committed) + 1,
                                hash |-> hash]
                      after == [next EXCEPT
                                  !.seen = seenAlertsAdd(@, hash),
                                  !.ring = ringPush(@, whale),
                                  !.committed = Append(@, whale),
                                  !.calls = Append(@, hash)]
                  IN  IF ~ meetsThreshold(count, price, cfg.MIN_TRADE_SIZE)
                      THEN checkLoop(ticker, cfg, next)
                      ELSE IF hash \in Range(st.seen)
                      THEN checkLoop(ticker, cfg,
                               [next EXCEPT !.suppressed = @ \cup {hash}])
                      ELSE IF ~ sendDiscordAlertPosts(cfg)
                      THEN checkLoop(ticker, cfg, after)
                      ELSE [after EXCEPT !.status = "await", !.pending = hash]

(* ----------------------- pure functions: Python ------------------------ *)
\* hashlib.md5(unique_string.encode()).hexdigest(), as a digest with no
\* collisions: the digest is named by the string it was taken of
md5(unique_string) == "md5(" \o unique_string \o ")"

\* create_order_hash: price is the order's yes_price, else its no_price
create_order_hash(ticker, side, price, size) ==
    md5(ticker \o "_" \o side \o "_" \o ToString(price) \o "_" \o ToString(size))

\* dict.get(key, default)
DictGet(dict, key, default) ==
    IF key \in DOMAIN dict THEN dict[key] ELSE default

\* one of the two loops of find_large_orders over a side's orders; a
\* non-dict entry raises AttributeError at order.get
RECURSIVE find_large_orders_loop(_, _, _, _, _)
find_large_orders_loop(ticker, side, orders, order_threshold, st) ==
    IF orders = <<>> THEN st
    ELSE LET order == Head(orders)
         IN  IF order.kind = "null" THEN [st EXCEPT !.raised = TRUE]
             ELSE LET count == DictGet(order, "count", 0)
                      price == DictGet(order, "price", 0)
                      order_hash == create_order_hash(ticker, side, price, count)
                      found == [ticker |-> ticker,
                                outcome |-> IF side = "yes" THEN "YES" ELSE "NO",
                                amount |-> count * price,
                                price |-> price, count |-> count,
                                hash |-> order_hash]
                  IN  IF ~ (count * price >= order_threshold * 100)
                      THEN find_large_orders_loop(ticker, side, Tail(orders),
                               order_threshold, st)
                      ELSE IF order_hash \in st.seen
                      THEN find_large_orders_loop(ticker, side, Tail(orders),
                               order_threshold,
                               [st EXCEPT !.suppressed = @ \cup {order_hash}])
                      ELSE find_large_orders_loop(ticker, side, Tail(orders),
                               order_threshold,
                               [st EXCEPT !.seen = @ \cup {order_hash},
                                          !.inserted = Append(@, order_hash),
                                          !.large_orders = Append(@, found)])

find_large_orders(orderbook, ticker, order_threshold, st) ==
    LET yes == find_large_orders_loop(ticker, "yes",
                   DictGet(orderbook, "yes", <<>>), order_threshold, st)
    IN  IF yes.raised THEN yes
        ELSE find_large_orders_loop(ticker, "no",
                 DictGet(orderbook, "no", <<>>), order_threshold, yes)

\* get_market_orderbook: {} unless the GET answers 200
get_market_orderbook(response) ==
    IF response.kind = "failed" THEN [kind |-> "empty"] ELSE response

\* `if orderbook:` is false for {}
orderbookTruthy(orderbook) == orderbook.kind # "empty"

\* how send_discord_alert ends: `except Exception` prints and returns
send_discord_alert_ends(delivered) == "return"

\* what run() does with the ledger after an empty listing: sleep, continue
runOnNoMarkets(seen) == seen

\* `if check_count % 100 == 0` before cleanup_old_hashes()
cleanupDue(check_count) == check_count % PyCleanupEvery = 0

\* cleanup_old_hashes: list(set)[-5000:].  A set iterates in the order of
\* its hash table, which string hashing randomises per process, so the
\* slice can be any PyLedgerKeep of the members.
cleanup_old_hashes(seen) ==
    IF Cardinality(seen) > PyLedgerCap
    THEN {kept \in SUBSET seen : Cardinality(kept) = PyLedgerKeep}
    ELSE {seen}

(* ------------------------------- Init ---------------------------------- *)
NoCleanup == [done |-> FALSE]

Init ==
    /\ variant \in {"js", "py"}
    /\ CONFIG \in [MIN_TRADE_SIZE : MinTradeSizes, DISCORD_WEBHOOK : Webhooks]
    /\ variant = "py" => CONFIG.DISCORD_WEBHOOK # ""
    /\ proc = "starting"
    /\ seenAlerts = <<>>
    /\ recentWhales = <<>>
    /\ cycles = <<>>
    /\ seen_orders = {}
    /\ py = [pc |-> "loop", check_count |-> 0, markets |-> <<>>, idx |-> 0]
    /\ recentTrades = <<>>
    /\ seenTradeIds = <<>>
    /\ trackedMarkets = {}
    /\ step = Event("init", 0, "")
    /\ py_inserted = <<>>
    /\ committed = <<>>
    /\ notifyCalls = <<>>
    /\ notifyFailed = {}
    /\ evicted = <<>>
    /\ suppressed = {}
    /\ cycleEnds = <<>>
    /\ lastCleanup = NoCleanup

(* ----------------------------- JS actions ------------------------------ *)
\* monitorKalshi() up to its first await, the GET in getActiveMarkets
NewCycle ==
    [pc |-> "markets", markets |-> <<>>, idx |-> 0,
     side |-> "YES", rest |-> <<>>, noRest |-> <<>>, pending |-> "",
     failedFetch |-> {}, outcome |-> "running"]

InFlight == {c \in 1..Len(cycles) : cycles[c].pc # "done"}

\* the record of an ended cycle: how it ended, whether the ledger is over
\* its cap, whether the cleanup step was reached, and how many of the
\* listed markets were started
CycleEnd(c, how, over, swept, reached, listed) ==
    [cycle |-> c, outcome |-> how, over |-> over, swept |-> swept,
     reached |-> reached, listed |-> listed]

\* monitorKalshi ends: its return on no markets, its catch, or its last line
EndCycle(c, how, seen) ==
    LET kept == monitorKalshiEnd(how, seen)
        dropped == SubSeq(seen, 1, Len(seen) - Len(kept))
    IN  /\ seenAlerts' = kept
        /\ evicted' = evicted \o dropped
        /\ lastCleanup' = IF kept # seen
                          THEN [done |-> TRUE, before |-> seen, after |-> kept]
                          ELSE lastCleanup
        /\ cycles' = [cycles EXCEPT
              ![c].pc = "done", ![c].outcome = how, ![c].side = "YES",
              ![c].rest = <<>>, ![c].noRest = <<>>, ![c].pending = ""]
        /\ cycleEnds' = Append(cycleEnds,
              CycleEnd(c, how, Len(kept) > JsLedgerCap, how = "completed",
                       cycles[c].idx, Len(cycles[c].markets)))

\* the app.listen callback: the first monitorKalshi() and the setInterval
Listen ==
    /\ variant = "js" /\ proc = "starting"
    /\ proc' = "listening"
    /\ cycles' = Append(cycles, NewCycle)
    /\ step' = Event("Listen", Len(cycles) + 1, "")
    /\ UNCHANGED <<variant, CONFIG, tradeState, seenAlerts, recentWhales, seen_orders,
                   py, history>>

\* a setInterval tick calls monitorKalshi, whatever the earlier calls do
Tick ==
    /\ variant = "js" /\ proc = "listening"
    /\ Len(cycles) < MaxCycles
    /\ cycles' = Append(cycles, NewCycle)
    /\ step' = Event("Tick", Len(cycles) + 1, "")
    /\ UNCHANGED <<variant, CONFIG, tradeState, proc, seenAlerts, recentWhales,
                   seen_orders, py, history>>

\* checkForLargeOrders(ticker) up to its first await, the GET in getOrderbook
StartMarket(cy, i) == [cy EXCEPT !.pc = "orderbook", !.idx = i]

\* getActiveMarkets resolves ([] after an error); monitorKalshi returns on
\* an empty listing, else goes on to the first market
MarketsResolved(c, listing) ==
    /\ variant = "js" /\ proc = "listening"
    /\ cycles[c].pc = "markets"
    /\ IF Len(listing) = 0
       THEN /\ EndCycle(c, "noMarkets", seenAlerts)
            /\ step' = Event("MarketsResolved", c, "empty")
       ELSE /\ cycles' = [cycles EXCEPT
                            ![c] = StartMarket([@ EXCEPT !.markets = listing], 1)]
            /\ step' = Event("MarketsResolved", c, "listing")
            /\ UNCHANGED <<seenAlerts, evicted, lastCleanup, cycleEnds>>
    /\ UNCHANGED <<variant, CONFIG, tradeState, proc, recentWhales, seen_orders, py,
                   py_inserted, committed, notifyCalls, notifyFailed,
                   suppressed>>

LoopState(side, rest, noRest) ==
    [side |-> side, rest |-> rest, noRest |-> noRest,
     seen |-> seenAlerts, ring |-> recentWhales, committed |-> committed,
     calls |-> notifyCalls, suppressed |-> suppressed,
     status |-> "run", pending |-> ""]

\* checkForLargeOrders of cycle c runs on from position st
AfterLoop(c, st) ==
    LET r == checkLoop(cycles[c].markets[cycles[c].idx], CONFIG, st)
    IN  /\ recentWhales' = r.ring
        /\ committed' = r.committed
        /\ notifyCalls' = r.calls
        /\ suppressed' = r.suppressed
        /\ CASE r.status = "await" ->
                  /\ seenAlerts' = r.seen
                  /\ cycles' = [cycles EXCEPT
                        ![c].pc = "notify", ![c].side = r.side,
                        ![c].rest = r.rest, ![c].noRest = r.noRest,
                        ![c].pending = r.pending]
                  /\ UNCHANGED <<evicted, lastCleanup, cycleEnds>>
             [] r.status = "return" ->
                  /\ seenAlerts' = r.seen
                  /\ cycles' = [cycles EXCEPT
                        ![c].pc = "delay", ![c].side = "YES",
                        ![c].rest = <<>>, ![c].noRest = <<>>,
                        ![c].pending = ""]
                  /\ UNCHANGED <<evicted, lastCleanup, cycleEnds>>
             [] r.status = "throw" ->
                  \* the TypeError leaves checkForLargeOrders and lands in
                  \* the catch of monitorKalshi
                  EndCycle(c, "error", r.seen)

\* getOrderbook resolves; checkForLargeOrders runs on
OrderbookResolved(c, response) ==
    LET orderbook == getOrderbook(response)
    IN  /\ variant = "js" /\ proc = "listening"
        /\ cycles[c].pc = "orderbook"
        /\ step' = Event("OrderbookResolved", c,
                         IF response.kind = "failed" THEN "failed"
                         ELSE IF orderbookUnusable(orderbook) THEN "unusable"
                         ELSE "ok")
        /\ CASE orderbook.kind = "throw" ->
                  /\ EndCycle(c, "error", seenAlerts)
                  /\ UNCHANGED <<recentWhales, committed, notifyCalls,
                                 suppressed>>
             [] orderbook.kind # "throw" /\ orderbookUnusable(orderbook) ->
                  /\ cycles' = [cycles EXCEPT
                        ![c].pc = "delay",
                        ![c].failedFetch = IF response.kind = "failed"
                                           THEN @ \cup {cycles[c].idx} ELSE @]
                  /\ UNCHANGED <<seenAlerts, recentWhales, committed,
                                 notifyCalls, suppressed, evicted,
                                 lastCleanup, cycleEnds>>
             [] OTHER ->
                  AfterLoop(c, LoopState("YES", orderbook.yes, orderbook.no))
        /\ UNCHANGED <<variant, CONFIG, tradeState, proc, seen_orders, py, py_inserted,
                       notifyFailed>>

\* the POST of sendDiscordAlert settles: 204, or a rejection;
\* checkForLargeOrders runs on
NotifyResolved(c, delivered) ==
    /\ variant = "js" /\ proc = "listening"
    /\ cycles[c].pc = "notify"
    /\ delivered \/ Cardinality(notifyFailed \cup {cycles[c].pending})
                       <= MaxSendFailures
    /\ step' = Event("NotifyResolved", c,
                     IF delivered THEN "delivered" ELSE "failed")
    /\ notifyFailed' = IF delivered THEN notifyFailed
                       ELSE notifyFailed \cup {cycles[c].pending}
    /\ IF sendDiscordAlertEnds(delivered) = "throw"
       THEN /\ EndCycle(c, "error", seenAlerts)
            /\ UNCHANGED <<recentWhales, committed, notifyCalls, suppressed>>
       ELSE AfterLoop(c, LoopState(cycles[c].side, cycles[c].rest,
                                   cycles[c].noRest))
    /\ UNCHANGED <<variant, CONFIG, tradeState, proc, seen_orders, py, py_inserted>>

\* the 200 ms timer fires: the next market, or the rest of monitorKalshi
DelayElapsed(c) ==
    /\ variant = "js" /\ proc = "listening"
    /\ cycles[c].pc = "delay"
    /\ step' = Event("DelayElapsed", c, "")
    /\ IF cycles[c].idx < Len(cycles[c].markets)
       THEN /\ cycles' = [cycles EXCEPT ![c] = StartMarket(@, cycles[c].idx + 1)]
            /\ UNCHANGED <<seenAlerts, evicted, cycleEnds, lastCleanup>>
       ELSE EndCycle(c, "completed", seenAlerts)
    /\ UNCHANGED <<variant, CONFIG, tradeState, proc, recentWhales, seen_orders, py,
                   py_inserted, committed, notifyCalls, notifyFailed,
                   suppressed>>

\* process.on('SIGTERM'): log the final stats, process.exit(0)
Sigterm ==
    /\ variant = "js" /\ proc = "listening"
    /\ proc' = "exited"
    /\ step' = Event("Sigterm", 0,
                     [status |-> 0, whales |-> Len(recentWhales),
                      orders |-> Len(seenAlerts)])
    /\ UNCHANGED <<variant, CONFIG, tradeState, seenAlerts, recentWhales, cycles,
                   seen_orders, py, history>>

JsNext ==
    \/ Listen
    \/ Tick
    \/ \E c \in 1..Len(cycles), listing \in MarketListings :
         MarketsResolved(c, listing)
    \/ \E c \in 1..Len(cycles), response \in OrderbookResponses :
         OrderbookResolved(c, response)
    \/ \E c \in 1..Len(cycles), delivered \in BOOLEAN :
         NotifyResolved(c, delivered)
    \/ \E c \in 1..Len(cycles) : DelayElapsed(c)
    \/ Sigterm

(* --------------------------- Python actions ---------------------------- *)
PyCycleEnd(how, seen, swept) ==
    Append(cycleEnds,
           CycleEnd(py.check_count, how, Cardinality(seen) > PyLedgerCap, swept,
                    py.idx, Len(py.markets)))

\* the top of `while True`: check_count += 1 and get_active_markets();
\* on an empty listing, sleep(interval) and continue
PyCheck(listing) ==
    /\ variant = "py" /\ py.pc = "loop"
    /\ py.check_count < MaxChecks
    /\ IF Len(listing) = 0
       THEN /\ py' = [py EXCEPT !.check_count = @ + 1]
            /\ seen_orders' = runOnNoMarkets(seen_orders)
            /\ cycleEnds' = Append(cycleEnds,
                   CycleEnd(py.check_count + 1, "noMarkets",
                            Cardinality(seen_orders') > PyLedgerCap, FALSE,
                            0, 0))
            /\ step' = Event("PyCheck", py.check_count + 1, "empty")
       ELSE /\ py' = [pc |-> "market", check_count |-> py.check_count + 1,
                      markets |-> listing, idx |-> 1]
            /\ step' = Event("PyCheck", py.check_count + 1, "listing")
            /\ UNCHANGED <<seen_orders, cycleEnds>>
    /\ py_inserted' = SelectSeq(py_inserted, LAMBDA h : h \in seen_orders')
    /\ UNCHANGED <<variant, CONFIG, tradeState, jsState, committed, notifyCalls,
                   notifyFailed, evicted, suppressed, lastCleanup>>

\* which of the alerts for hashes fail
FailureChoices(hashes) ==
    {F \in SUBSET Range(hashes) :
        F = {} \/ Cardinality(notifyFailed \cup F) <= MaxSendFailures}

\* after the last market of the for loop comes the end of the check
PyAdvance ==
    IF py.idx < Len(py.markets)
    THEN [py EXCEPT !.idx = @ + 1]
    ELSE [py EXCEPT !.pc = "finish"]

\* one turn of `for market in markets`: the orderbook, find_large_orders,
\* and one send_discord_alert per new large order; failedSends are the
\* alerts whose POST fails or raises
PyMarket(response) ==
    LET orderbook == get_market_orderbook(response)
        ticker == py.markets[py.idx]
        r == find_large_orders(orderbook, ticker, CONFIG.MIN_TRADE_SIZE,
                 [seen |-> seen_orders, inserted |-> py_inserted,
                  large_orders |-> <<>>, suppressed |-> suppressed,
                  raised |-> FALSE])
        hashes == [i \in 1..Len(r.large_orders) |-> r.large_orders[i].hash]
    IN  /\ variant = "py" /\ py.pc = "market"
        /\ step' = Event("PyMarket", py.check_count,
                         IF response.kind = "failed" THEN "failed"
                         ELSE IF ~ orderbookTruthy(orderbook) THEN "unusable"
                         ELSE "ok")
        /\ IF ~ orderbookTruthy(orderbook)
           THEN /\ py' = PyAdvance
                /\ UNCHANGED <<seen_orders, py_inserted, committed,
                               notifyCalls, notifyFailed, suppressed,
                               cycleEnds>>
           ELSE /\ seen_orders' = r.seen
                /\ py_inserted' = r.inserted
                /\ committed' = committed \o r.large_orders
                /\ suppressed' = r.suppressed
                /\ IF r.raised
                   THEN \* `except Exception` of run(): print, then sleep
                        \* in the handler before the next check
                        /\ py' = [py EXCEPT !.pc = "errorSleep"]
                        /\ cycleEnds' = PyCycleEnd("error", r.seen, FALSE)
                        /\ UNCHANGED <<notifyCalls, notifyFailed>>
                   ELSE \E failedSends \in FailureChoices(hashes) :
                        /\ notifyCalls' = notifyCalls \o hashes
                        /\ notifyFailed' = notifyFailed \cup failedSends
                        /\ IF \E h \in failedSends :
                                send_discord_alert_ends(FALSE) = "raise"
                           THEN /\ py' = [py EXCEPT !.pc = "errorSleep"]
                                /\ cycleEnds' = PyCycleEnd("error", r.seen, FALSE)
                           ELSE /\ py' = PyAdvance
                                /\ UNCHANGED cycleEnds
        /\ UNCHANGED <<variant, CONFIG, tradeState, jsState, evicted, lastCleanup>>

\* the end of a check: cleanup_old_hashes() every 100th check, then
\* sleep(interval)
PyFinish ==
    /\ variant = "py" /\ py.pc = "finish"
    /\ step' = Event("PyFinish", py.check_count, "")
    /\ \E kept \in (IF cleanupDue(py.check_count)
                    THEN cleanup_old_hashes(seen_orders) ELSE {seen_orders}) :
         /\ seen_orders' = kept
         /\ py_inserted' = SelectSeq(py_inserted, LAMBDA h : h \in kept)
         /\ evicted' = evicted \o SelectSeq(py_inserted, LAMBDA h : h \notin kept)
         /\ lastCleanup' = IF kept # seen_orders
                           THEN [done |-> TRUE, before |-> py_inserted,
                                 after |-> kept]
                           ELSE lastCleanup
         /\ cycleEnds' = PyCycleEnd("completed", kept, TRUE)
    /\ py' = [py EXCEPT !.pc = "loop"]
    /\ UNCHANGED <<variant, CONFIG, tradeState, jsState, committed, notifyCalls,
                   notifyFailed, suppressed>>

\* the sleep(interval) of the `except Exception` handler ends
PyRetry ==
    /\ variant = "py" /\ py.pc = "errorSleep"
    /\ py' = [py EXCEPT !.pc = "loop"]
    /\ step' = Event("PyRetry", py.check_count, "")
    /\ UNCHANGED <<variant, CONFIG, tradeState, jsState, seen_orders, history>>

\* where a KeyboardInterrupt takes run(): raised in the try block it is
\* caught by `except KeyboardInterrupt` (final stats, break); raised in the
\* sleep of the `except Exception` handler it is outside the try block and
\* leaves run() uncaught
PyInterruptEnd(pc) == IF pc = "errorSleep" THEN "crashed" ELSE "stopped"

\* Ctrl-C.  Caught: the final stats are printed and the script ends with
\* status 0.  Uncaught: a traceback and the status of a process ended by
\* SIGINT (130; 1 before Python 3.8), no stats.
PyInterrupt ==
    /\ variant = "py" /\ py.pc \notin {"stopped", "crashed"}
    /\ py' = [py EXCEPT !.pc = PyInterruptEnd(py.pc)]
    /\ step' = Event("PyInterrupt", py.check_count,
                     IF PyInterruptEnd(py.pc) = "stopped"
                     THEN [status |-> 0, stats |-> TRUE,
                           orders |-> Cardinality(seen_orders)]
                     ELSE [status |-> 130, stats |-> FALSE])
    /\ UNCHANGED <<variant, CONFIG, tradeState, jsState, seen_orders, history>>

PyNext ==
    \/ \E listing \in MarketListings : PyCheck(listing)
    \/ \E response \in OrderbookResponses : PyMarket(response)
    \/ PyFinish
    \/ PyRetry
    \/ PyInterrupt

Next == JsNext \/ PyNext

Spec == Init /\ [][Next]_vars

(* ------------------------------ fairness ------------------------------- *)
(* What the programs' timeouts and timers guarantee.  JS: both GETs carry  *)
(* `timeout: 10000`, so each settles, and the 200 ms setTimeout fires; the *)
(* axios.post of sendDiscordAlert has no timeout, so NotifyResolved gets   *)
(* no fairness.  Python: requests.get and requests.post are called with no *)
(* timeout, so a turn of the market loop gets none; the end of a check     *)
(* makes no external call.                                                 *)
JsFairness ==
    \A c \in 1..MaxCycles :
        /\ WF_vars(c \in DOMAIN cycles
                   /\ \E listing \in MarketListings : MarketsResolved(c, listing))
        /\ WF_vars(c \in DOMAIN cycles
                   /\ \E response \in OrderbookResponses :
                          OrderbookResolved(c, response))
        /\ WF_vars(c \in DOMAIN cycles /\ DelayElapsed(c))

PyFairness == WF_vars(PyFinish)

LiveSpec == Spec /\ JsFairness /\ PyFairness

(* ----------------------- the trade-feed tracker ------------------------ *)
(* The second program of src/unnamed/part_000 (lines 302-569): it polls    *)
(* the trades of the first markets of a listing, keeps the large trades of *)
(* young wallets in recentTrades, and serves four HTTP endpoints.  Sizes   *)
(* and prices are the numbers parseFloat returns, prices in cents; a       *)
(* wallet age is a number of days, or NullAge for getWalletAge's null.     *)
\* CONFIG.MAX_ACCOUNT_AGE_DAYS of the environment (part_000:316)
MaxAccountAges == {7}

\* monitorTrades() calls made in one run of the trade-feed program
MaxTradeCycles == 2

NullAge == [kind |-> "null"]
Days(n) == [kind |-> "days", days |-> n]

\* what the polygonscan lookup can give getWalletAge: an error, or the age
\* of a wallet younger or older than MaxAccountAges
WalletAges == {NullAge, Days(3), Days(30)}

\* trades of the feed: Trade1 and Trade2 are worth $210 and $240, SmallTrade
\* $4, and NullTrade is a JSON null in the array.  Trade2 was made before
\* Trade1; SmallTrade carries no time.
Trade1 == [kind |-> "obj", id |-> "t1", size |-> 500, price |-> 42,
           address |-> "0xa", created_at |-> 2]
Trade2 == [kind |-> "obj", id |-> "t2", size |-> 600, price |-> 40,
           address |-> "0xb", created_at |-> 1]
SmallTrade == [kind |-> "obj", id |-> "t3", size |-> 10, price |-> 40,
               address |-> "0xa"]
NullTrade == [kind |-> "null"]

\* what GET /trades can give getMarketTrades: a failure or an array
TradeResponses ==
    { FetchFailed,
      [kind |-> "obj", trades |-> <<Trade1, SmallTrade>>],
      [kind |-> "obj", trades |-> <<Trade2, NullTrade>>] }

\* getMarketTrades: the array, or [] from its catch (part_000:352-365)
getMarketTrades(response) ==
    IF response.kind = "failed" THEN <<>> ELSE response.trades

\* processTrade's `amount < CONFIG.MIN_TRADE_SIZE` (part_000:436)
belowMinTradeSize(trade, cfg) ==
    trade.size * trade.price < cfg.MIN_TRADE_SIZE * 100

\* processTrade's test after the lookup (part_000:439)
ageRejected(accountAge, cfg) ==
    accountAge.kind = "null" \/ accountAge.days > cfg.MAX_ACCOUNT_AGE_DAYS

\* seenTradeIds.add(tradeId): a Set keeps one entry per key
setAdd(seen, key) == IF key \in Range(seen) THEN seen ELSE Append(seen, key)

\* `for (const trade of trades) await processTrade(...)` from the trade at
\* the head of st.rest up to the next real suspension: the await of
\* getWalletAge ("await"), the end of the array ("return"), or a throw on
\* a null trade ("throw").  Nothing is written before the await.
RECURSIVE tradeLoop(_, _, _)
tradeLoop(cfg, seen, st) ==
    IF st.rest = <<>> THEN [st EXCEPT !.status = "return"]
    ELSE LET trade == Head(st.rest)
             after == [st EXCEPT !.rest = Tail(st.rest)]
         IN  IF trade.kind = "null" THEN [st EXCEPT !.status = "throw"]
             ELSE IF trade.id \in Range(seen)
                  THEN tradeLoop(cfg, seen,
                         [after EXCEPT !.suppressed = @ \cup {trade.id}])
             ELSE IF belowMinTradeSize(trade, cfg)
                  THEN tradeLoop(cfg, seen, after)
             ELSE [after EXCEPT !.status = "await", !.pending = trade]

TradeLoopState(rest) ==
    [rest |-> rest, status |-> "run", pending |-> "", suppressed |-> {}]

\* monitorTrades() up to its first await, the GET in getActiveMarkets
NewTradeCycle ==
    [pc |-> "markets", markets |-> <<>>, idx |-> 0, rest |-> <<>>,
     pending |-> "", outcome |-> "running"]

\* the app.listen callback: the first monitorTrades() and the setInterval
TradeListen ==
    /\ variant = "trades" /\ proc = "starting"
    /\ proc' = "listening"
    /\ cycles' = Append(cycles, NewTradeCycle)
    /\ step' = Event("TradeListen", Len(cycles) + 1, "")
    /\ UNCHANGED <<variant, CONFIG, tradeState, seenAlerts, recentWhales,
                   seen_orders, py, history>>

\* a setInterval tick calls monitorTrades, whatever the earlier calls do
TradeTick ==
    /\ variant = "trades" /\ proc = "listening"
    /\ Len(cycles) < MaxTradeCycles
    /\ cycles' = Append(cycles, NewTradeCycle)
    /\ step' = Event("TradeTick", Len(cycles) + 1, "")
    /\ UNCHANGED <<variant, CONFIG, tradeState, proc, seenAlerts,
                   recentWhales, seen_orders, py, history>>

\* monitorTrades ends: its return on no markets, or its last line
monitorTradesEnd(markets) ==
    IF Len(markets) = 0 THEN "noMarkets" ELSE "completed"

\* the for loop of monitorTrades reaches market i: past the last market the
\* cycle is complete, else trackedMarkets.add and the GET in getMarketTrades
TradeMarket(c, cy, i) ==
    IF i > Len(cy.markets)
    THEN /\ cycles' = [cycles EXCEPT
               ![c] = [cy EXCEPT !.pc = "done",
                                 !.outcome = monitorTradesEnd(cy.markets),
                                 !.rest = <<>>, !.pending = ""]]
         /\ cycleEnds' = Append(cycleEnds,
               CycleEnd(c, monitorTradesEnd(cy.markets), FALSE, FALSE,
                        Len(cy.markets), Len(cy.markets)))
         /\ UNCHANGED trackedMarkets
    ELSE /\ cycles' = [cycles EXCEPT
               ![c] = [cy EXCEPT !.pc = "trades", !.idx = i,
                                 !.rest = <<>>, !.pending = ""]]
         /\ trackedMarkets' = trackedMarkets \cup {cy.markets[i]}
         /\ UNCHANGED cycleEnds

\* getActiveMarkets settled (its catch gives []); markets.slice(0, 10)
\* keeps a listing of MaxMarkets markets whole
TradeMarketsResolved(c, listing) ==
    /\ variant = "trades" /\ proc = "listening"
    /\ cycles[c].pc = "markets"
    /\ TradeMarket(c, [cycles[c] EXCEPT !.markets = listing], 1)
    /\ step' = Event("TradeMarketsResolved", c, listing)
    /\ UNCHANGED <<variant, CONFIG, proc, recentTrades, seenTradeIds,
                   seenAlerts, recentWhales, seen_orders, py, py_inserted,
                   committed, notifyCalls, notifyFailed, evicted, suppressed,
                   lastCleanup>>

\* the trade loop of cycle c went on to st: it waits for a wallet age, it
\* waits for the 1000 ms delay, or the market's catch took the throw and
\* the for loop goes on to the next market
AfterTradeLoop(c, st) ==
    /\ suppressed' = suppressed \cup st.suppressed
    /\ CASE st.status = "await" ->
              /\ cycles' = [cycles EXCEPT ![c].pc = "wallet",
                               ![c].rest = st.rest, ![c].pending = st.pending]
              /\ UNCHANGED <<trackedMarkets, cycleEnds>>
         [] st.status = "return" ->
              /\ cycles' = [cycles EXCEPT ![c].pc = "delay",
                               ![c].rest = <<>>, ![c].pending = ""]
              /\ UNCHANGED <<trackedMarkets, cycleEnds>>
         [] st.status = "throw" ->
              TradeMarket(c, cycles[c], cycles[c].idx + 1)

\* getMarketTrades settled: processTrade on the trades, in order
TradesResolved(c, response) ==
    /\ variant = "trades" /\ proc = "listening"
    /\ cycles[c].pc = "trades"
    /\ AfterTradeLoop(c, tradeLoop(CONFIG, seenTradeIds,
                                   TradeLoopState(getMarketTrades(response))))
    /\ step' = Event("TradesResolved", c, response)
    /\ UNCHANGED <<variant, CONFIG, proc, recentTrades, seenTradeIds,
                   seenAlerts, recentWhales, seen_orders, py, py_inserted,
                   committed, notifyCalls, notifyFailed, evicted, lastCleanup>>

\* the entry processTrade builds (part_000:441-451): its timestamp is
\* `trade.created_at || Date.now()`; hash repeats the id under the name the
\* history of the order-book trackers uses
processedTrade(trade, accountAge, now) ==
    [id |-> trade.id, hash |-> trade.id, amount |-> trade.size * trade.price,
     price |-> trade.price, address |-> trade.address,
     accountAge |-> accountAge.days,
     timestamp |-> IF "created_at" \in DOMAIN trade THEN trade.created_at
                   ELSE now]

\* getWalletAge settled: processTrade drops the trade, or commits it and
\* calls sendDiscordAlert, which posts when a webhook is set
WalletAgeResolved(c, accountAge) ==
    /\ variant = "trades" /\ proc = "listening"
    /\ cycles[c].pc = "wallet"
    /\ LET trade == cycles[c].pending
       IN  IF ageRejected(accountAge, CONFIG)
           THEN /\ AfterTradeLoop(c, tradeLoop(CONFIG, seenTradeIds,
                                       TradeLoopState(cycles[c].rest)))
                /\ UNCHANGED <<recentTrades, seenTradeIds, committed,
                               notifyCalls>>
           ELSE /\ seenTradeIds' = setAdd(seenTradeIds, trade.id)
                /\ recentTrades' =
                       ringPush(recentTrades, processedTrade(trade, accountAge,
                                                    Len(committed) + 1))
                /\ committed' =
                       Append(committed, processedTrade(trade, accountAge,
                                                    Len(committed) + 1))
                /\ IF sendDiscordAlertPosts(CONFIG)
                   THEN /\ cycles' = [cycles EXCEPT ![c].pc = "notify"]
                        /\ notifyCalls' = Append(notifyCalls, trade.id)
                        /\ UNCHANGED <<trackedMarkets, cycleEnds, suppressed>>
                   ELSE /\ AfterTradeLoop(c, tradeLoop(CONFIG, seenTradeIds',
                                               TradeLoopState(cycles[c].rest)))
                        /\ UNCHANGED notifyCalls
    /\ step' = Event("WalletAgeResolved", c, accountAge)
    /\ UNCHANGED <<variant, CONFIG, proc, seenAlerts, recentWhales,
                   seen_orders, py, py_inserted, notifyFailed, evicted,
                   lastCleanup>>

\* the axios.post of sendDiscordAlert settled; its catch logs a failure
TradeNotifyResolved(c, delivered) ==
    /\ variant = "trades" /\ proc = "listening"
    /\ cycles[c].pc = "notify"
    /\ delivered \/ Cardinality(notifyFailed) < MaxSendFailures
    /\ notifyFailed' = IF delivered THEN notifyFailed
                       ELSE notifyFailed \cup {cycles[c].pending.id}
    /\ AfterTradeLoop(c, tradeLoop(CONFIG, seenTradeIds,
                                   TradeLoopState(cycles[c].rest)))
    /\ step' = Event("TradeNotifyResolved", c, delivered)
    /\ UNCHANGED <<variant, CONFIG, proc, recentTrades, seenTradeIds,
                   seenAlerts, recentWhales, seen_orders, py, py_inserted,
                   committed, notifyCalls, evicted, lastCleanup>>

\* the 1000 ms delay after a market's trades elapsed
TradeDelayElapsed(c) ==
    /\ variant = "trades" /\ proc = "listening"
    /\ cycles[c].pc = "delay"
    /\ TradeMarket(c, cycles[c], cycles[c].idx + 1)
    /\ step' = Event("TradeDelayElapsed", c, "")
    /\ UNCHANGED <<variant, CONFIG, proc, recentTrades, seenTradeIds,
                   seenAlerts, recentWhales, seen_orders, py, py_inserted,
                   committed, notifyCalls, notifyFailed, evicted, suppressed,
                   lastCleanup>>

\* process.on('SIGTERM'): log, process.exit(0)
TradeSigterm ==
    /\ variant = "trades" /\ proc = "listening"
    /\ proc' = "exited"
    /\ step' = Event("TradeSigterm", 0, [status |-> 0])
    /\ UNCHANGED <<variant, CONFIG, tradeState, seenAlerts, recentWhales,
                   cycles, seen_orders, py, history>>

TradeNext ==
    \/ TradeListen
    \/ TradeTick
    \/ \E c \in 1..Len(cycles), listing \in MarketListings :
         TradeMarketsResolved(c, listing)
    \/ \E c \in 1..Len(cycles), response \in TradeResponses :
         TradesResolved(c, response)
    \/ \E c \in 1..Len(cycles), accountAge \in WalletAges :
         WalletAgeResolved(c, accountAge)
    \/ \E c \in 1..Len(cycles), delivered \in BOOLEAN :
         TradeNotifyResolved(c, delivered)
    \/ \E c \in 1..Len(cycles) : TradeDelayElapsed(c)
    \/ TradeSigterm

\* the trade-feed program started in an environment
TradeInit ==
    /\ variant = "trades"
    /\ CONFIG \in [MIN_TRADE_SIZE : MinTradeSizes,
                   MAX_ACCOUNT_AGE_DAYS : MaxAccountAges,
                   DISCORD_WEBHOOK : Webhooks]
    /\ proc = "starting"
    /\ seenAlerts = <<>>
    /\ recentWhales = <<>>
    /\ cycles = <<>>
    /\ seen_orders = {}
    /\ py = [pc |-> "loop", check_count |-> 0, markets |-> <<>>, idx |-> 0]
    /\ recentTrades = <<>>
    /\ seenTradeIds = <<>>
    /\ trackedMarkets = {}
    /\ step = Event("init", 0, "")
    /\ py_inserted = <<>>
    /\ committed = <<>>
    /\ notifyCalls = <<>>
    /\ notifyFailed = {}
    /\ evicted = <<>>
    /\ suppressed = {}
    /\ cycleEnds = <<>>
    /\ lastCleanup = NoCleanup

TradeSpec == TradeInit /\ [][TradeNext]_vars

(* --------------------------- the HTTP surface -------------------------- *)
(* The express handlers of both JS programs.  A handler runs to its end    *)
(* between two awaits of the monitoring cycles; its response is kept in    *)
(* step.  process.uptime() is wall-clock time and is left out.             *)
\* a reduce that stops after the first entry
SumAmounts_HeadOnly(ring) == IF ring = <<>> THEN 0 ELSE Head(ring).amount

RECURSIVE SumAmounts(_)
\* ring.reduce((sum, w) => sum + w.amount, 0)
SumAmounts(ring) ==
    IF ring = <<>> THEN 0 ELSE Head(ring).amount + SumAmounts(Tail(ring))

\* totalVolume / length as the fraction it is, 0 for an empty ring
avgSize(ring) ==
    IF Len(ring) > 0 THEN [num |-> SumAmounts(ring), den |-> Len(ring)]
    ELSE [num |-> 0, den |-> 1]

\* ring[0]?.timestamp || null: the timestamp, or nothing
lastUpdate(ring) == IF ring = <<>> THEN <<>> ELSE <<ring[1].timestamp>>

\* order-book tracker: GET /api/whales (part_000:248-256)
GetApiWhales ==
    /\ variant = "js" /\ proc = "listening"
    /\ step' = Event("GET /api/whales", 0,
                     [whales |-> recentWhales, count |-> Len(recentWhales),
                      minTradeSize |-> CONFIG.MIN_TRADE_SIZE])
    /\ UNCHANGED <<variant, CONFIG, tradeState, jsState, seen_orders, py,
                   history>>

\* order-book tracker: GET /api/stats (part_000:258-269)
GetApiStats ==
    /\ variant = "js" /\ proc = "listening"
    /\ step' = Event("GET /api/stats", 0,
                     [totalWhales |-> Len(recentWhales),
                      totalVolume |-> SumAmounts(recentWhales),
                      avgWhaleSize |-> avgSize(recentWhales),
                      lastUpdate |-> lastUpdate(recentWhales),
                      uniqueOrdersTracked |-> Len(seenAlerts)])
    /\ UNCHANGED <<variant, CONFIG, tradeState, jsState, seen_orders, py,
                   history>>

\* order-book tracker: GET /health (part_000:271-279)
GetHealth ==
    /\ variant = "js" /\ proc = "listening"
    /\ step' = Event("GET /health", 0,
                     [status |-> "ok", whalesDetected |-> Len(recentWhales),
                      uniqueOrdersTracked |-> Len(seenAlerts)])
    /\ UNCHANGED <<variant, CONFIG, tradeState, jsState, seen_orders, py,
                   history>>

\* trade feed: GET /api/trades (part_000:511-520)
GetApiTrades ==
    /\ variant = "trades" /\ proc = "listening"
    /\ step' = Event("GET /api/trades", 0,
                     [trades |-> recentTrades, count |-> Len(recentTrades),
                      minTradeSize |-> CONFIG.MIN_TRADE_SIZE,
                      maxAccountAge |-> CONFIG.MAX_ACCOUNT_AGE_DAYS])
    /\ UNCHANGED <<variant, CONFIG, tradeState, jsState, seen_orders, py,
                   history>>

\* trade feed: GET /api/stats (part_000:522-533)
GetTradeStats ==
    /\ variant = "trades" /\ proc = "listening"
    /\ step' = Event("GET /api/stats", 0,
                     [totalTrades |-> Len(recentTrades),
                      totalVolume |-> SumAmounts(recentTrades),
                      avgTradeSize |-> avgSize(recentTrades),
                      lastUpdate |-> lastUpdate(recentTrades),
                      trackedMarkets |-> Cardinality(trackedMarkets)])
    /\ UNCHANGED <<variant, CONFIG, tradeState, jsState, seen_orders, py,
                   history>>

\* request bodies of POST /api/config: an empty body and one that sets the
\* three fields; a field that is absent is given as the falsy 0 or ""
PostBodies ==
    { [minTradeSize |-> 0, maxAccountAge |-> 0, discordWebhook |-> ""],
      [minTradeSize |-> 220, maxAccountAge |-> 365,
       discordWebhook |-> "https://other/hook"] }

\* the three `if (field) CONFIG.X = field` of POST /api/config
postConfig(cfg, body) ==
    [MIN_TRADE_SIZE |->
         IF body.minTradeSize # 0 THEN body.minTradeSize
         ELSE cfg.MIN_TRADE_SIZE,
     MAX_ACCOUNT_AGE_DAYS |->
         IF body.maxAccountAge # 0 THEN body.maxAccountAge
         ELSE cfg.MAX_ACCOUNT_AGE_DAYS,
     DISCORD_WEBHOOK |->
         IF body.discordWebhook # "" THEN body.discordWebhook
         ELSE cfg.DISCORD_WEBHOOK]

\* trade feed: POST /api/config (part_000:535-543)
PostApiConfig(body) ==
    /\ variant = "trades" /\ proc = "listening"
    /\ CONFIG' = postConfig(CONFIG, body)
    /\ step' = Event("POST /api/config", 0,
                     [body |-> body, success |-> TRUE, config |-> CONFIG'])
    /\ UNCHANGED <<variant, tradeState, jsState, seen_orders, py, history>>

\* trade feed: GET /health (part_000:545-552)
GetTradeHealth ==
    /\ variant = "trades" /\ proc = "listening"
    /\ step' = Event("GET /health", 0,
                     [status |-> "ok", trackedTrades |-> Len(recentTrades),
                      trackedMarkets |-> Cardinality(trackedMarkets)])
    /\ UNCHANGED <<variant, CONFIG, tradeState, jsState, seen_orders, py,
                   history>>

HttpNext ==
    \/ GetApiWhales
    \/ GetApiStats
    \/ GetHealth
    \/ GetApiTrades
    \/ GetTradeStats
    \/ \E body \in PostBodies : PostApiConfig(body)
    \/ GetTradeHealth

\* a JS program with its HTTP surface
HttpInit == (Init /\ variant = "js") \/ TradeInit

HttpSpec == HttpInit /\ [][JsNext \/ TradeNext \/ HttpNext]_vars

(* ----------------- the pure functions on drawn inputs ------------------ *)
(* FnSpec applies createOrderHash / create_order_hash and the detection   *)
(* loops of both programs to inputs drawn by FnInit, from an empty ledger *)
(* and an empty ring.  The inputs and the results are kept in step.       *)
\* prices in cents and counts, with the boundary cases of the threshold:
\* 40 * 500 = 20000 and 7 * 2857 = 19999 cents around $200, 42 * 500 = 21000
\* cents around $211, and pairs whose digits run together (1, 23 / 12, 3)
FnPrices == {-42, 0, 1, 7, 12, 40, 42}
FnCounts == {-500, 0, 3, 23, 500, 2857}
FnMinTradeSizes == {200, 211}

FnInputs ==
    [ticker : {"A"}, side : {"YES", "NO"},
     price : FnPrices, count : FnCounts, price2 : FnPrices, count2 : FnCounts]

FnInit ==
    /\ variant = "fn"
    /\ CONFIG \in [MIN_TRADE_SIZE : FnMinTradeSizes, DISCORD_WEBHOOK : Webhooks]
    /\ proc = "starting"
    /\ seenAlerts = <<>>
    /\ recentWhales = <<>>
    /\ cycles = <<>>
    /\ seen_orders = {}
    /\ py = [pc |-> "loop", check_count |-> 0, markets |-> <<>>, idx |-> 0]
    /\ recentTrades = <<>>
    /\ seenTradeIds = <<>>
    /\ trackedMarkets = {}
    /\ step \in {Event("input", 0, in) : in \in FnInputs}
    /\ py_inserted = <<>>
    /\ committed = <<>>
    /\ notifyCalls = <<>>
    /\ notifyFailed = {}
    /\ evicted = <<>>
    /\ suppressed = {}
    /\ cycleEnds = <<>>
    /\ lastCleanup = NoCleanup

\* the side names of the Python program
PySide(side) == IF side = "YES" THEN "yes" ELSE "no"

\* both fingerprint functions on the two drawn tuples
FnHash ==
    /\ variant = "fn" /\ step.op = "input"
    /\ LET in == step.arg
       IN  step' = Event("createOrderHash", 0,
              [in |-> in,
               js1 |-> createOrderHash(in.ticker, in.side, in.price, in.count),
               js2 |-> createOrderHash(in.ticker, in.side, in.price2, in.count2),
               py1 |-> create_order_hash(in.ticker, PySide(in.side),
                                         in.price, in.count),
               py2 |-> create_order_hash(in.ticker, PySide(in.side),
                                         in.price2, in.count2)])
    /\ UNCHANGED <<variant, CONFIG, tradeState, jsState, seen_orders, py, history>>

\* both detection loops on a snapshot whose side in.side holds the one
\* order (in.price, in.count)
FnDetect ==
    /\ variant = "fn" /\ step.op = "input"
    /\ LET in == step.arg
           order == [kind |-> "obj", price |-> in.price, count |-> in.count]
           orderbook == IF in.side = "YES"
                        THEN [kind |-> "obj", yes |-> <<order>>, no |-> <<>>]
                        ELSE [kind |-> "obj", yes |-> <<>>, no |-> <<order>>]
       IN  step' = Event("checkForLargeOrders", 0,
              [in |-> in,
               js |-> checkLoop(in.ticker, CONFIG,
                          LoopState("YES", orderbook.yes, orderbook.no)),
               py |-> find_large_orders(orderbook, in.ticker,
                          CONFIG.MIN_TRADE_SIZE,
                          [seen |-> seen_orders, inserted |-> py_inserted,
                           large_orders |-> <<>>, suppressed |-> suppressed,
                           raised |-> FALSE])])
    /\ UNCHANGED <<variant, CONFIG, tradeState, jsState, seen_orders, py, history>>

FnNext == FnHash \/ FnDetect

FnSpec == FnInit /\ [][FnNext]_vars

(* ======================================================================= *)
(*                               Claims                                    *)
(* ======================================================================= *)
\* the dedup ledger of the running program
Ledger == IF variant = "js" THEN Range(seenAlerts) ELSE seen_orders

CommittedHashes == [i \in 1..Len(committed) |-> committed[i].hash]

KnownHashes == Range(CommittedHashes) \cup Ledger \cup Range(evicted)

\* how many times h has entered the ledger: once per eviction, and once
\* more if it is a member now
Residencies(h) == Count(evicted, h) + (IF h \in Ledger THEN 1 ELSE 0)

(* C1: dedup idempotence.  Between two compactions that evict it, a        *)
(* fingerprint gives exactly one committed event and exactly one notify    *)
(* attempt, however many passes detect it: per fingerprint, the events     *)
(* committed and the notify calls made both equal the number of times it   *)
(* entered the ledger.                                                     *)
C1_DedupIdempotence ==
    \A h \in KnownHashes :
        /\ Count(CommittedHashes, h) = Residencies(h)
        /\ Count(notifyCalls, h) = Residencies(h)

\* the same, of the JS program alone, where it holds
JsDedupIdempotence == variant = "js" => C1_DedupIdempotence

JsDedupWitness ==
    /\ variant = "js"
    /\ \E h \in suppressed : Count(notifyCalls, h) = 1 /\ Count(evicted, h) = 0

(* C2: poll cycles never overlap: at most one cycle is in flight.          *)
C2_NoOverlap == Cardinality(InFlight) <= 1

(* C3: ledger size bound: if the ledger is over its cap when a cycle       *)
(* ends, it is within the cap when the following cycle ends.               *)
C3_LedgerBound ==
    \A i \in 1..(Len(cycleEnds) - 1) :
        cycleEnds[i].over => ~ cycleEnds[i + 1].over

(* C4: compaction keeps the newest: a cleanup that drops something leaves  *)
(* exactly the Keep most recently inserted fingerprints (in the JS         *)
(* program, in insertion order).                                           *)
C4_KeepsNewest ==
    lastCleanup.done =>
        IF variant = "js"
        THEN lastCleanup.after = Last(lastCleanup.before, JsLedgerKeep)
        ELSE lastCleanup.after = Range(Last(lastCleanup.before, PyLedgerKeep))

\* the same, of the JS program alone, where it holds
JsKeepsNewest == variant = "js" => C4_KeepsNewest

JsKeepsNewestWitness == variant = "js" /\ lastCleanup.done

C6_RingContent ==
    variant = "js" =>
        recentWhales = Reverse(Last(committed,
                           IF Len(committed) < RingCap THEN Len(committed)
                           ELSE RingCap))

C6_OldestEvicted ==
    /\ variant = "js"
    /\ Len(committed) >= RingCap + 1
    /\ committed[1] \notin Range(recentWhales)
    /\ recentWhales[1] = committed[Len(committed)]

(* C7: partial-failure isolation.  A failed snapshot fetch changes neither *)
(* ledger nor ring, leaves the cycle running and moves it on to the delay  *)
(* before the next source; a cycle is never cut short at a source whose    *)
(* fetch failed, and a cycle that completes has started every listed       *)
(* source and reached the cleanup step.                                    *)
C7_FailedFetchStep ==
    /\ (step'.op = "OrderbookResolved" /\ step'.arg = "failed") =>
          LET c == step'.c
          IN  /\ cycles'[c].pc = "delay"
              /\ cycles'[c].outcome = "running"
              /\ cycles'[c].idx = cycles[c].idx
              /\ seenAlerts' = seenAlerts
              /\ recentWhales' = recentWhales
              /\ committed' = committed
              /\ cycleEnds' = cycleEnds
    /\ (step'.op = "PyMarket" /\ step'.arg = "failed") =>
          /\ py'.pc \in {"market", "finish"}
          /\ py'.check_count = py.check_count
          /\ seen_orders' = seen_orders
          /\ committed' = committed
          /\ cycleEnds' = cycleEnds

C7_CompletedCycles ==
    /\ \A c \in 1..Len(cycles) :
          /\ cycles[c].outcome = "completed" =>
                cycles[c].idx = Len(cycles[c].markets)
          /\ cycles[c].outcome = "error" =>
                cycles[c].idx \notin cycles[c].failedFetch
    /\ \A i \in 1..Len(cycleEnds) :
          cycleEnds[i].outcome = "completed" =>
              cycleEnds[i].swept /\ cycleEnds[i].reached = cycleEnds[i].listed

C7_PartialFailureIsolation == []C7_CompletedCycles /\ [][C7_FailedFetchStep]_vars

\* the fetch for the first source failed, the second source was detected
\* on, and the cycle completed
C7_SkippedAndCompleted ==
    /\ variant = "js"
    /\ Len(cycles) = 1
    /\ cycles[1].outcome = "completed"
    /\ cycles[1].failedFetch = {1}
    /\ committed # <<>>

(* C8: source-listing failure.  A cycle that gets no listing ends at once  *)
(* with ledger, ring, configuration and notify log as they were, and the   *)
(* program stays scheduled for the next cycle.                             *)
C8_NoListingStep ==
    /\ (step'.op = "MarketsResolved" /\ step'.arg = "empty") =>
          /\ cycles'[step'.c].outcome = "noMarkets"
          /\ seenAlerts' = seenAlerts
          /\ recentWhales' = recentWhales
          /\ CONFIG' = CONFIG
          /\ committed' = committed
          /\ notifyCalls' = notifyCalls
          /\ proc' = "listening"
    /\ (step'.op = "PyCheck" /\ step'.arg = "empty") =>
          /\ seen_orders' = seen_orders
          /\ CONFIG' = CONFIG
          /\ committed' = committed
          /\ notifyCalls' = notifyCalls
          /\ py'.pc = "loop"

C8_ListingFailure == [][C8_NoListingStep]_vars

\* the first cycle got no listing and a later one committed an event
C8_LaterCycleDetects ==
    /\ \E i \in 1..Len(cycleEnds) :
          cycleEnds[i].cycle = 1 /\ cycleEnds[i].outcome = "noMarkets"
    /\ committed # <<>>

(* C9: no rollback on notification failure.  When a send fails, nothing    *)
(* is removed from the ledger, the ring only takes the events committed    *)
(* since, the cycle goes on with the remaining orders (it ends only on a   *)
(* malformed entry among them), and a fingerprint whose alert failed is    *)
(* never alerted again while it stays in the ledger.                       *)
C9_FailedSendStep ==
    /\ (step'.op = "NotifyResolved" /\ step'.arg = "failed") =>
          LET c == step'.c
              new == SubSeq(committed', Len(committed) + 1, Len(committed'))
          IN  /\ IsPrefix(seenAlerts, seenAlerts')
              /\ IsPrefix(committed, committed')
              /\ recentWhales' = FirstN(Reverse(new) \o recentWhales, RingCap)
              /\ cycles'[c].pc = "done" =>
                    NullEntry \in Range(cycles[c].rest \o cycles[c].noRest)
    /\ (step'.op = "PyMarket" /\ notifyFailed' # notifyFailed) =>
          /\ seen_orders \subseteq seen_orders'
          /\ cycleEnds' = cycleEnds
          /\ py'.pc \in {"market", "finish"}
          /\ Len(notifyCalls') - Len(notifyCalls)
                = Len(committed') - Len(committed)

C9_FailedStaysSeen ==
    \A h \in notifyFailed :
        /\ h \in Ledger \/ h \in Range(evicted)
        /\ Count(notifyCalls, h) <= Residencies(h)

C9_NoRollback == []C9_FailedStaysSeen /\ [][C9_FailedSendStep]_vars

\* an alert failed, and a later pass found its fingerprint in the ledger
C9_FailedThenSuppressed ==
    \E h \in notifyFailed \cap suppressed :
        Count(notifyCalls, h) = 1 /\ Count(evicted, h) = 0

(* C10: error containment.  Whatever is raised while a source or an order  *)
(* is processed, a cycle that got a listing starts every listed source     *)
(* and reaches the cleanup step.                                           *)
C10_ErrorContained ==
    \A i \in 1..Len(cycleEnds) :
        cycleEnds[i].outcome # "noMarkets" =>
            cycleEnds[i].reached = cycleEnds[i].listed /\ cycleEnds[i].swept

(* C11: threshold boundary (FnSpec).  An order with a positive price and   *)
(* count is accepted by both programs exactly when its notional in cents,  *)
(* price * count, is at least 100 times the configured minimum: equal to   *)
(* the minimum is accepted, one cent below is rejected.                    *)
C11_ThresholdBoundary ==
    step.op = "checkForLargeOrders" =>
        LET in == step.arg.in
            cents == in.price * in.count
            min == CONFIG.MIN_TRADE_SIZE * 100
            jsAccepted == Len(step.arg.js.committed) = 1
            pyAccepted == Len(step.arg.py.large_orders) = 1
        IN  (in.price > 0 /\ in.count > 0) =>
                /\ cents >= min => jsAccepted /\ pyAccepted
                /\ cents <= min - 1 => ~ jsAccepted /\ ~ pyAccepted
                /\ jsAccepted =>
                      step.arg.js.committed[1].amount = cents
                /\ pyAccepted =>
                      step.arg.py.large_orders[1].amount = cents

\* a notional equal to the minimum ($200.00 = 40 * 500 cents), accepted
C11_EqualAccepted ==
    /\ step.op = "checkForLargeOrders"
    /\ CONFIG.MIN_TRADE_SIZE = 200
    /\ step.arg.in.price = 40 /\ step.arg.in.count = 500
    /\ Len(step.arg.js.committed) = 1
    /\ Len(step.arg.py.large_orders) = 1

C17_NonPositiveDropped ==
    step.op = "checkForLargeOrders" =>
        LET in == step.arg.in
        IN  (in.price <= 0 \/ in.count <= 0) =>
                /\ step.arg.js.committed = <<>>
                /\ step.arg.js.seen = <<>>
                /\ step.arg.js.calls = <<>>
                /\ step.arg.js.status = "return"
                /\ step.arg.py.large_orders = <<>>
                /\ step.arg.py.seen = {}
                /\ ~ step.arg.py.raised

(* C13: cycle termination under an unresponsive endpoint (LiveSpec).       *)
(* Every started cycle ends (or the process is stopped), whichever         *)
(* endpoint stops answering.                                               *)
C13_CyclesTerminate ==
    /\ \A c \in 1..MaxCycles :
          (c \in DOMAIN cycles)
              ~> (proc = "exited" \/ (c \in DOMAIN cycles /\ cycles[c].pc = "done"))
    /\ (py.pc = "market") ~> (py.pc \notin {"market", "finish"})

(* C14: compaction step every cycle.  Every cycle that ends without an     *)
(* error, whether or not it detected an event, leaves the ledger within    *)
(* its cap.                                                                *)
C14_CompactionEveryCycle ==
    \A i \in 1..Len(cycleEnds) :
        cycleEnds[i].outcome # "error" => ~ cycleEnds[i].over

(* C15: notify pacing.  Two sends are never issued back to back: the step  *)
(* in which the POST of one alert settles does not issue the POST of the   *)
(* next, and no POST is issued while another is in flight.                 *)
C15_NoSendOnSettle ==
    (step'.op = "NotifyResolved") =>
        /\ Len(notifyCalls') = Len(notifyCalls)
        /\ cycles'[step'.c].pc # "notify"

C15_NotifyPacing ==
    /\ [](Cardinality({c \in DOMAIN cycles : cycles[c].pc = "notify"}) <= 1)
    /\ [][C15_NoSendOnSettle]_vars

(* C18: detection completeness with missing fields.  When the fetch of a   *)
(* snapshot with no malformed entry answers, every order on a side that    *)
(* is present whose notional meets the threshold and whose fingerprint is  *)
(* new is committed in that pass, whether or not the other side is there:  *)
(* the step commits one at least, and all of them when the pass does not   *)
(* suspend on a send (JS with no webhook, Python).                         *)
C18_Side(r, side) == IF side \in DOMAIN r THEN r[side] ELSE <<>>

C18_WellFormed(r) ==
    \A side \in {"yes", "no"} :
        \A i \in 1..Len(C18_Side(r, side)) : C18_Side(r, side)[i].kind = "obj"

C18_Large(r, side) ==
    {i \in 1..Len(C18_Side(r, side)) :
        OrZero(C18_Side(r, side)[i], "count") * OrZero(C18_Side(r, side)[i], "price")
            >= CONFIG.MIN_TRADE_SIZE * 100}

C18_NewJs(ticker, r) ==
    UNION {{createOrderHash(ticker, IF side = "yes" THEN "YES" ELSE "NO",
                            OrZero(C18_Side(r, side)[i], "price"),
                            OrZero(C18_Side(r, side)[i], "count")) :
               i \in C18_Large(r, side)} : side \in {"yes", "no"}}
        \ Range(seenAlerts)

C18_NewPy(ticker, r) ==
    UNION {{create_order_hash(ticker, side,
                              OrZero(C18_Side(r, side)[i], "price"),
                              OrZero(C18_Side(r, side)[i], "count")) :
               i \in C18_Large(r, side)} : side \in {"yes", "no"}}
        \ seen_orders

C18_DetectionStep ==
    /\ \A c \in DOMAIN cycles, r \in Orderbooks :
          (C18_WellFormed(r) /\ OrderbookResolved(c, r)) =>
              LET new == C18_NewJs(cycles[c].markets[cycles[c].idx], r)
              IN  /\ new # {} => Len(committed') > Len(committed)
                  /\ CONFIG.DISCORD_WEBHOOK = "" =>
                        new \subseteq Range(CommittedHashes')
    /\ \A r \in Orderbooks :
          (C18_WellFormed(r) /\ PyMarket(r)) =>
              C18_NewPy(py.markets[py.idx], r) \subseteq Range(CommittedHashes')

C18_DetectionComplete == [][C18_DetectionStep]_vars

(* C19: empty notification endpoint.  With no webhook configured the JS    *)
(* program never has a POST in flight and no send ever fails or throws     *)
(* (a cycle ends in an error only on a malformed entry), and events are    *)
(* committed as otherwise: one event per residency of a fingerprint in     *)
(* the ledger, the ring holding the most recent ones, the pass over a      *)
(* snapshot finishing in the step that began it.                           *)
C19_NoEndpointState ==
    (variant = "js" /\ CONFIG.DISCORD_WEBHOOK = "") =>
        /\ \A c \in DOMAIN cycles : cycles[c].pc # "notify"
        /\ notifyFailed = {}
        /\ \A h \in KnownHashes : Count(CommittedHashes, h) = Residencies(h)
        /\ recentWhales = Reverse(Last(committed,
                              IF Len(committed) < RingCap THEN Len(committed)
                              ELSE RingCap))

C19_NoEndpointStep ==
    CONFIG.DISCORD_WEBHOOK = "" =>
        \A c \in DOMAIN cycles, r \in Orderbooks :
            OrderbookResolved(c, r) =>
                /\ cycles'[c].pc \in {"delay", "done"}
                /\ cycles'[c].pc = "done" =>
                      NullEntry \in Range(C18_Side(r, "yes") \o C18_Side(r, "no"))
                /\ Len(seenAlerts') - Len(seenAlerts)
                      = Len(committed') - Len(committed)

C19_EmptyEndpoint == []C19_NoEndpointState /\ [][C19_NoEndpointStep]_vars

\* no webhook, an event committed, and a later duplicate of it suppressed
C19_CommittedUnnotified ==
    /\ variant = "js" /\ CONFIG.DISCORD_WEBHOOK = ""
    /\ \E h \in suppressed :
          /\ Count(CommittedHashes, h) = 1
          /\ h \in Range(seenAlerts)
          /\ \E i \in 1..Len(recentWhales) : recentWhales[i].hash = h

(* C20: shutdown.  The step that handles the termination signal logs the   *)
(* final counters and ends the process with status 0, leaving ledger,      *)
(* ring and notify log as they are and in-flight cycles where they are;    *)
(* after it no cycle starts and nothing is inserted, pushed or sent.       *)
C20_ShutdownStep ==
    /\ step'.op = "Sigterm" =>
          /\ proc' = "exited"
          /\ step'.arg = [status |-> 0, whales |-> Len(recentWhales),
                          orders |-> Len(seenAlerts)]
          /\ UNCHANGED <<cycles, seenAlerts, recentWhales, notifyCalls>>
    /\ proc = "exited" =>
          UNCHANGED <<cycles, seenAlerts, recentWhales, notifyCalls, committed>>
    /\ step'.op = "PyInterrupt" =>
          /\ step'.arg.status = 0
          /\ step'.arg.stats
          /\ step'.arg.orders = Cardinality(seen_orders)
          /\ UNCHANGED <<seen_orders, notifyCalls, committed>>
    /\ py.pc \in {"stopped", "crashed"} =>
          UNCHANGED <<py, seen_orders, notifyCalls, committed>>

C20_Shutdown == [][C20_ShutdownStep]_vars

\* the same, of the JS program alone, where it holds
JsShutdown == [][variant = "js" => C20_ShutdownStep]_vars

\* the JS process has exited with a cycle still in flight
JsShutdownWitness == proc = "exited" /\ InFlight # {}

(* C16: the HTTP surface is read-only.  A step that handles an HTTP        *)
(* request leaves the ledger, the ring and the detection configuration    *)
(* (threshold, webhook URL, account-age limit) as they were, and a step   *)
(* that changes one of them is a step of a monitoring cycle.              *)
HttpOps == {"GET /api/whales", "GET /api/stats", "GET /health",
            "GET /api/trades", "POST /api/config"}

PollOps == {"MarketsResolved", "OrderbookResolved", "NotifyResolved",
            "DelayElapsed", "TradeMarketsResolved", "TradesResolved",
            "WalletAgeResolved", "TradeNotifyResolved", "TradeDelayElapsed"}

C16_Detection == <<CONFIG, seenAlerts, recentWhales, seenTradeIds, recentTrades>>

C16_HttpStep ==
    /\ step'.op \in HttpOps => UNCHANGED C16_Detection
    /\ C16_Detection' # C16_Detection => step'.op \in PollOps

C16_HttpReadOnly == [][C16_HttpStep]_vars

\* the same for the order-book tracker alone, whose handlers are all GETs
C16_OrderBookStep == variant = "js" => C16_HttpStep

JsHttpReadOnly == [][C16_OrderBookStep]_vars

JsHttpWitness ==
    /\ variant = "js" /\ step.op = "GET /api/stats"
    /\ Len(recentWhales) > 0 /\ InFlight # {}

(* C21: statistics projection.  The response of the order-book tracker's   *)
(* GET /api/stats is computed from the ring and the ledger as they are at  *)
(* the request: the count is the ring's length, totalVolume the sum of the *)
(* notional of the events in the ring, the average is totalVolume / count  *)
(* (0 for an empty ring), lastUpdate is the timestamp of the most recent   *)
(* event in the ring (nothing for an empty ring), and the fingerprint      *)
(* count is the size of the ledger.  A GET changes step only, so the state *)
(* that follows it is the state it answered from.                          *)
RECURSIVE C21_Notional(_, _)
\* the notional of the first n events of a ring
C21_Notional(ring, n) ==
    IF n = 0 THEN 0 ELSE ring[n].amount + C21_Notional(ring, n - 1)

C21_StatsProjection ==
    (variant = "js" /\ step.op = "GET /api/stats") =>
        LET stats == step.arg
            n == Len(recentWhales)
        IN  /\ stats.totalWhales = n
            /\ stats.totalVolume = C21_Notional(recentWhales, n)
            /\ IF n = 0
               THEN stats.avgWhaleSize.num = 0 /\ stats.lastUpdate = <<>>
               ELSE /\ stats.avgWhaleSize.num = stats.totalVolume
                    /\ stats.avgWhaleSize.den = n
                    /\ stats.lastUpdate = <<recentWhales[1].timestamp>>
                    /\ \A i \in 1..n : recentWhales[i].timestamp
                                          <= recentWhales[1].timestamp
            /\ stats.uniqueOrdersTracked = Cardinality(Range(seenAlerts))

\* stats of a full ring of events of different notional, with more
\* fingerprints in the ledger than events in the ring
C21_StatsOfFullRing ==
    /\ variant = "js" /\ step.op = "GET /api/stats"
    /\ Len(recentWhales) = RingCap
    /\ recentWhales[1].amount # recentWhales[2].amount
    /\ Len(seenAlerts) > RingCap
    /\ step.arg.totalVolume = 41000

\* stats of an empty ring
C21_StatsOfEmptyRing ==
    /\ variant = "js" /\ step.op = "GET /api/stats"
    /\ recentWhales = <<>> /\ step.arg.avgWhaleSize.num = 0

(* C22: in the JS order-book tracker the novelty test, the ledger insert   *)
(* and the ring push of one order run with no await between them.  Under   *)
(* every interleaving of monitoring cycles at their awaits, a step commits *)
(* no event and makes no notify attempt for a fingerprint that is in the   *)
(* ledger when the step begins, and a fingerprint is committed and         *)
(* notified at most once more than it was evicted by a compaction.         *)
C22_OncePerResidency ==
    variant = "js" =>
        \A h \in KnownHashes :
            /\ Count(CommittedHashes, h) <= Count(evicted, h) + 1
            /\ Count(notifyCalls, h) <= Count(evicted, h) + 1

C22_NoRecommit ==
    variant = "js" =>
        \A h \in Range(seenAlerts) :
            /\ Count(CommittedHashes', h) = Count(CommittedHashes, h)
            /\ Count(notifyCalls', h) = Count(notifyCalls, h)

C22_AtomicTestAndSet == []C22_OncePerResidency /\ [][C22_NoRecommit]_vars

\* two cycles in flight on the same market: the later one found a
\* fingerprint of the earlier one in the ledger, and it was notified once
C22_SameSnapshotTwice ==
    /\ variant = "js" /\ Len(cycles) = 2 /\ InFlight = {1, 2}
    /\ cycles[1].idx = cycles[2].idx
    /\ cycles[1].pc = "notify"
    /\ \E h \in suppressed :
           /\ Count(evicted, h) = 0 /\ h = cycles[1].pending
           /\ Count(CommittedHashes, h) = 1 /\ Count(notifyCalls, h) = 1

\* a compaction by one cycle while the other is suspended
C22_CompactionWhileSuspended ==
    /\ variant = "js" /\ lastCleanup.done /\ InFlight # {}
    /\ step.op = "DelayElapsed" /\ step.c \notin InFlight

(* C23: in the trade-feed tracker processTrade commits a trade id at most  *)
(* once: under every interleaving of monitoring cycles at their awaits, no *)
(* two entries of the ring carry the same trade id, and at most one notify *)
(* attempt is made per trade id.                                           *)
C23_TradeOnce ==
    variant = "trades" =>
        /\ \A i, j \in 1..Len(recentTrades) :
               i # j => recentTrades[i].id # recentTrades[j].id
        /\ \A id \in Range(notifyCalls) : Count(notifyCalls, id) <= 1

\* the same while one monitoring cycle only has been started, where it holds
C23_SingleCycle == Len(cycles) <= 1 => C23_TradeOnce

C23_SingleCycleWitness ==
    /\ variant = "trades" /\ Len(cycles) = 1
    /\ \E id \in suppressed : Count(CommittedHashes, id) = 1

(* C24: in the JS order-book tracker the ledger covers the ring.  In every *)
(* reachable state the fingerprint of each event in the ring is a member   *)
(* of the ledger, and is one of the JsLedgerKeep most recently inserted    *)
(* members, so that it is still a member right after a compaction; and as  *)
(* many events were pushed on the ring as fingerprints were inserted in    *)
(* the ledger.                                                             *)
C24_Fingerprint(whale) ==
    createOrderHash(whale.ticker, whale.outcome, whale.price, whale.count)

C24_LedgerCoversRing ==
    variant = "js" =>
        /\ \A i \in 1..Len(recentWhales) :
               /\ C24_Fingerprint(recentWhales[i]) \in Range(seenAlerts)
               /\ C24_Fingerprint(recentWhales[i])
                      \in Range(Last(seenAlerts,
                                     IF Len(seenAlerts) < JsLedgerKeep
                                     THEN Len(seenAlerts) ELSE JsLedgerKeep))
        /\ Len(committed) = Len(seenAlerts) + Len(evicted)

\* a full ring right after a compaction dropped fingerprints
C24_FullRingAfterCompaction ==
    /\ variant = "js" /\ lastCleanup.done
    /\ seenAlerts = lastCleanup.after /\ step.op = "DelayElapsed"
    /\ Len(recentWhales) = RingCap /\ Len(evicted) > 0

====
